---------------------------- MODULE Spec2Model ----------------------------
(***************************************************************************)
(* A model of pensa/statesinfo/ssi_clustering.py: the smoothing filter     *)
(* (smooth), the K-closest selector (printKclosest), the bin-count retry   *)
(* loop (smart_gauss_fit) and the boundary resolution (get_intersects,     *)
(* determine_state_limits).                                                *)
(*                                                                         *)
(* Conventions.  Python lists and arrays are TLA+ sequences, so position p *)
(* of the source is position p+1 here.  Each function of the source has one record-valued variable     *)
(* holding its parameters and locals under the source's names, and a pc.   *)
(* Each function has its own specification (SpecSmooth, SpecKClosest,      *)
(* SpecFit, SpecLimits); the variables of the other functions stay idle.   *)
(***************************************************************************)
EXTENDS Integers, Sequences, FiniteSets, TLC

VARIABLES sm, kc, fit, lim

vars == <<sm, kc, fit, lim>>

Idle == [pc |-> "idle"]

(***************************************************************************)
(* Helpers shared by the functions.                                        *)
(***************************************************************************)
Abs(v) == IF v < 0 THEN -v ELSE v

\* All sequences over S of length lo..hi.
SeqsOf(S, lo, hi) == UNION {[1..l -> S] : l \in lo..hi}

RECURSIVE SumTo(_, _)
\* f[1] + ... + f[m]
SumTo(f, m) == IF m = 0 THEN 0 ELSE f[m] + SumTo(f, m - 1)

(***************************************************************************)
(* smooth(x, window_len, window=None), lines 14-55.                        *)
(* An array is [shape, data]: ndim is Len(shape), size is Len(data).       *)
(* Sample values are counted in quarters, so that the normalised Hanning   *)
(* weights of the windows modelled (3, 4 and 5 points) are integers.       *)
(***************************************************************************)
MaxLen == 3

SampleVals == {-4, 8}

WindowLens == -1 .. 5

Windows == {"None", "flat"}

Array1(d) == [shape |-> <<Len(d)>>, data |-> d]

Arrays ==
    {Array1(d) : d \in SeqsOf(SampleVals, 0, MaxLen)}
        \cup {[shape |-> <<1, Len(d)>>, data |-> d] : d \in SeqsOf(SampleVals, 1, 2)}
        \cup {[shape |-> <<>>, data |-> <<v>>] : v \in SampleVals}

ndim(x) == Len(x.shape)

size(x) == Len(x.data)

\* line 43: x.size < window_len
TooShortMut(n, window_len) == n <= window_len

TooShort(n, window_len) == n < window_len

\* line 45: window_len<3
BelowThreshold(window_len) == window_len < 3

\* np.hanning(M) / np.hanning(M).sum(), times 4 (lines 53-54)
HanningWeights(M) ==
    CASE M = 3 -> <<0, 4, 0>>
      [] M = 4 -> <<0, 2, 2, 0>>
      [] M = 5 -> <<0, 1, 2, 1, 0>>

\* line 49: np.r_[x[window_len-1:0:-1], x, x[-2:-window_len-1:-1]]
Padded(d, window_len) ==
    [i \in 1..(window_len - 1) |-> d[window_len + 1 - i]]
        \o d
        \o [i \in 1..(window_len - 1) |-> d[Len(d) - i]]

\* line 54: np.convolve(w/w.sum(), s, mode='valid')
Convolve(w, s) ==
    [j \in 1..(Len(s) - Len(w) + 1) |->
        SumTo([m \in 1..Len(w) |-> w[m] * s[j + Len(w) - m]], Len(w)) \div 4]

smooth(x, window_len, window) ==
    IF ndim(x) # 1 THEN [kind |-> "raise", error |-> "ValueError"]
    ELSE IF TooShort(size(x), window_len)
        THEN [kind |-> "raise", error |-> "ValueError"]
    ELSE IF BelowThreshold(window_len) THEN [kind |-> "return", value |-> x]
    \* line 47 reads window_type, which line 40 binds only when window is None
    ELSE IF window # "None" THEN [kind |-> "raise", error |-> "UnboundLocalError"]
    ELSE [kind |-> "return",
          value |-> Array1(Convolve(HanningWeights(window_len),
                                    Padded(x.data, window_len)))]

SmoothInit ==
    /\ \E x \in Arrays, window_len \in WindowLens, window \in Windows :
           sm = [pc |-> "call", x |-> x, window_len |-> window_len, window |-> window]
    /\ kc = Idle /\ fit = Idle /\ lim = Idle

SmoothCall ==
    /\ sm.pc = "call"
    /\ sm' = [pc |-> "done", x |-> sm.x, window_len |-> sm.window_len,
              window |-> sm.window,
              result |-> smooth(sm.x, sm.window_len, sm.window)]
    /\ UNCHANGED <<kc, fit, lim>>

SmoothNext == SmoothCall

SpecSmooth ==
    /\ SmoothInit
    /\ [][SmoothNext]_vars

\* C6 as stated: for every x (any length and shape) and every window_len < 3,
\* smooth returns x unchanged and raises no error.
C6_AnyInputUnchanged ==
    (sm.pc = "done" /\ sm.window_len < 3) =>
        (sm.result.kind = "return" /\ sm.result.value = sm.x)

\* C6 amended: for every one-dimensional x with at least window_len elements
\* and every window_len < 3, smooth returns x unchanged and raises no error;
\* an x that is not one-dimensional, or shorter than window_len, raises
\* ValueError.
C6_ValidInputUnchanged ==
    (sm.pc = "done" /\ sm.window_len < 3) =>
        IF ndim(sm.x) = 1 /\ size(sm.x) >= sm.window_len
        THEN sm.result.kind = "return" /\ sm.result.value = sm.x
        ELSE sm.result = [kind |-> "raise", error |-> "ValueError"]

C6_Witness ==
    /\ sm.pc = "done" /\ sm.window_len = 2
    /\ ndim(sm.x) = 1 /\ size(sm.x) = 2 /\ sm.window = "flat"
    /\ sm.result.kind = "return" /\ sm.result.value = sm.x

(***************************************************************************)
(* printKclosest(arr, n, x, k), lines 169-214.                             *)
(* pq is the PriorityQueue: a set of (-difference, index) pairs, of which  *)
(* get() removes the smallest in tuple order.                              *)
(***************************************************************************)
MaxArr == 3

KcVals == {-1, 0, 2}

KcTargets == {0, 1}

\* tuple order of (p, pi)
TupleLeq(e, f) == e[1] < f[1] \/ (e[1] = f[1] /\ e[2] <= f[2])

\* the entry pq.get() returns (lines 199, 212)
PqHead(pq) == CHOOSE e \in pq : \A f \in pq : TupleLeq(e, f)

\* line 204: diff>curr
KeepsRootMut(diff, curr) == diff < curr

KeepsRoot(diff, curr) == diff > curr

\* line 213: str("{} ".format(arr[q]))
Format(v) == ToString(v) \o " "

KcInit ==
    /\ \E arr \in SeqsOf(KcVals, 0, MaxArr), n \in 0..MaxArr, k \in 0..MaxArr,
          x \in KcTargets :
           kc = [pc |-> "fill", arr |-> arr, n |-> n, x |-> x, k |-> k,
                 a |-> <<>>, pq |-> {}, neighb |-> 1]
    /\ sm = Idle /\ fit = Idle /\ lim = Idle

\* lines 194-195: for neighb in range(k): pq.put((-abs(arr[neighb]-x),neighb))
KcFill ==
    /\ kc.pc = "fill"
    /\ kc' =
        IF kc.neighb > kc.k THEN [kc EXCEPT !.pc = "scan"]
        ELSE IF kc.neighb > Len(kc.arr) THEN [kc EXCEPT !.pc = "IndexError"]
        ELSE [kc EXCEPT !.pq = @ \cup {<<-Abs(kc.arr[kc.neighb] - kc.x), kc.neighb>>},
                        !.neighb = @ + 1]
    /\ UNCHANGED <<sm, fit, lim>>

\* lines 197-209: for neighb in range(k,n): ...
KcScan ==
    /\ kc.pc = "scan"
    /\ kc' =
        IF kc.neighb > kc.n THEN [kc EXCEPT !.pc = "drain"]
        ELSE IF kc.neighb > Len(kc.arr) THEN [kc EXCEPT !.pc = "IndexError"]
        \* get() on an empty queue waits for a put() that never comes
        ELSE IF kc.pq = {} THEN [kc EXCEPT !.pc = "blocked"]
        ELSE LET diff == Abs(kc.arr[kc.neighb] - kc.x)
                 root == PqHead(kc.pq)
                 curr == -root[1]
                 pi   == root[2]
                 rest == kc.pq \ {root}
             IN  IF KeepsRoot(diff, curr)
                 THEN [kc EXCEPT !.pq = rest \cup {<<-curr, pi>>}, !.neighb = @ + 1]
                 ELSE [kc EXCEPT !.pq = rest \cup {<<-diff, kc.neighb>>},
                                 !.neighb = @ + 1]
    /\ UNCHANGED <<sm, fit, lim>>

\* lines 211-214: while(not pq.empty()): p,q = pq.get(); a.append(...)
KcDrain ==
    /\ kc.pc = "drain"
    /\ kc' =
        IF kc.pq = {} THEN [kc EXCEPT !.pc = "done"]
        ELSE LET root == PqHead(kc.pq)
             IN  [kc EXCEPT !.pq = @ \ {root},
                            !.a = Append(@, Format(kc.arr[root[2]]))]
    /\ UNCHANGED <<sm, fit, lim>>

KcNext == KcFill \/ KcScan \/ KcDrain

SpecKClosest ==
    /\ KcInit
    /\ [][KcNext]_vars

KcDiff(i) == Abs(kc.arr[i] - kc.x)

\* C5: for n <= len(arr) and 1 <= k <= n the result holds exactly k values,
\* each the (formatted) value of an element at a distinct index among the
\* first n, and no unselected element among the first n is strictly closer to
\* x than the farthest selected one.
C5_KClosest ==
    (kc.pc = "done" /\ kc.n <= Len(kc.arr) /\ 1 <= kc.k /\ kc.k <= kc.n) =>
        /\ Len(kc.a) = kc.k
        /\ \E sel \in [1..kc.k -> 1..kc.n] :
            /\ \A i, j \in 1..kc.k : sel[i] = sel[j] => i = j
            /\ \A j \in 1..kc.k : kc.a[j] = Format(kc.arr[sel[j]])
            /\ \A i \in 1..kc.n :
                (\A j \in 1..kc.k : sel[j] # i) =>
                    \A j \in 1..kc.k : KcDiff(i) >= KcDiff(sel[j])

\* a run in which the scan replaced the root: the third element is strictly
\* closer to x than the first and than the second
C5_Witness ==
    /\ kc.pc = "done" /\ kc.k = 2 /\ kc.n = 3 /\ Len(kc.arr) = 3
    /\ KcDiff(3) < KcDiff(1) /\ KcDiff(1) < KcDiff(2)
    /\ kc.a = <<Format(kc.arr[1]), Format(kc.arr[3])>>

(***************************************************************************)
(* smart_gauss_fit(distr, gauss_bins=120, gauss_smooth=None), lines        *)
(* 299-357.  gauss_fit is its callee: here only whether the call returns   *)
(* or raises matters, and what it was called with.                         *)
(***************************************************************************)
AdjustRange == 10000

DefaultBins == 120

BinChoices == {1, DefaultBins}

\* an optional value: None is the empty tuple, a given value v is <<v>>
None == <<>>

Some(v) == <<v>>

SmoothChoices == {None, Some(2)}

\* int(v * 0.1) for an integer v: the integer part, rounded towards zero
TenPercent(v) == IF v >= 0 THEN v \div 10 ELSE -((-v) \div 10)

\* lines 328-329: gauss_smooth = int(gauss_bins*0.1) when it is None
DefaultSmoothMut(gauss_smooth, gauss_bins) ==
    IF gauss_smooth = None THEN TenPercent(2 * gauss_bins) ELSE gauss_smooth[1]

DefaultSmooth(gauss_smooth, gauss_bins) ==
    IF gauss_smooth = None THEN TenPercent(gauss_bins) ELSE gauss_smooth[1]

\* line 335: np.array(range(1,10000))
bin_adjust_up(i) == i

\* line 336: bin_adjust_up.copy()*-1
bin_adjust_down(i) == bin_adjust_up(i) * (-1)

\* len(bin_adjust): np.insert adds every element of bin_adjust_down
BinAdjustLen == 2 * (AdjustRange - 1)

\* line 337: np.insert(bin_adjust_up, np.arange(len(bin_adjust_down)),
\* bin_adjust_down)[i], for the source's position i (from 0): the j-th element
\* of bin_adjust_down is put before the j-th of bin_adjust_up, which gives
\* -1, 1, -2, 2, -3, 3, ...
bin_adjust(i) ==
    IF i % 2 = 0 THEN bin_adjust_down(i \div 2 + 1) ELSE bin_adjust_up(i \div 2 + 1)

\* line 345: attempt_no+=1
AdvanceAttemptMut(attempt_no) == (attempt_no + 1) % 4

AdvanceAttempt(attempt_no) == attempt_no + 1

\* gauss_fit (lines 239-242) raises for every distribution when np.histogram
\* is asked for fewer than one bin, or when smooth (line 43) finds the
\* gauss_bin bin edges fewer than the window
GaussFitMustRaise(gauss_bin, gauss_smooth) ==
    gauss_bin < 1 \/ TooShort(gauss_bin, gauss_smooth)

FitInit ==
    /\ \E gauss_bins \in BinChoices, gauss_smooth \in SmoothChoices :
           fit = [pc |-> "enter", gauss_bins |-> gauss_bins,
                  gauss_smooth |-> gauss_smooth]
    /\ sm = Idle /\ kc = Idle /\ lim = Idle

\* lines 326-337
FitEnter ==
    /\ fit.pc = "enter"
    /\ fit' = [pc |-> "loop",
               smooth_origin |-> fit.gauss_smooth,
               bin_origin |-> fit.gauss_bins,
               gauss_bins |-> fit.gauss_bins,
               gauss_smooth |-> DefaultSmooth(fit.gauss_smooth, fit.gauss_bins),
               trial |-> 0, attempt_no |-> 0,
               result |-> None, warned |-> FALSE]
    /\ UNCHANGED <<sm, kc, lim>>

\* lines 340-343: gauss_fit returns
FitTryReturns ==
    /\ fit.pc = "loop" /\ fit.trial < 1
    /\ ~GaussFitMustRaise(fit.gauss_bins, fit.gauss_smooth)
    /\ fit' = [fit EXCEPT
                 !.result = Some([gauss_bin |-> fit.gauss_bins,
                                  gauss_smooth |-> fit.gauss_smooth]),
                 !.trial = @ + 1]
    /\ UNCHANGED <<sm, kc, lim>>

\* lines 340-342, 344-347: gauss_fit raises; bin_adjust[attempt_no] raises
\* IndexError past the end of the table, inside the handler
FitTryRaises ==
    /\ fit.pc = "loop" /\ fit.trial < 1
    /\ LET attempt_no == AdvanceAttempt(fit.attempt_no)
       IN  fit' =
             IF attempt_no >= BinAdjustLen
             THEN [fit EXCEPT !.attempt_no = attempt_no, !.trial = 0,
                              !.pc = "raised"]
             ELSE [fit EXCEPT !.attempt_no = attempt_no, !.trial = 0,
                              !.gauss_bins = fit.bin_origin + bin_adjust(attempt_no)]
    /\ UNCHANGED <<sm, kc, lim>>

\* lines 350-357
FitReturn ==
    /\ fit.pc = "loop" /\ ~(fit.trial < 1)
    /\ fit' = [fit EXCEPT
                 !.warned = (fit.bin_origin = DefaultBins
                             /\ fit.smooth_origin = None
                             /\ 10 * fit.attempt_no > fit.bin_origin),
                 !.pc = "returned"]
    /\ UNCHANGED <<sm, kc, lim>>

FitNext == FitEnter \/ FitTryReturns \/ FitTryRaises \/ FitReturn

\* The function runs to its end: a sequential program takes its next step.
SpecFit ==
    /\ FitInit
    /\ [][FitNext]_vars
    /\ WF_vars(FitNext)

FitCalling == fit.pc = "loop" /\ fit.trial < 1

\* the n-th term of +1, -1, +2, -2, +3, -3, ...
AlternatingTerm(n) == IF n % 2 = 1 THEN (n + 1) \div 2 ELSE -(n \div 2)

\* C3: the n-th retry calls gauss_fit with the original bin count plus the
\* n-th term of +1, -1, +2, -2, ..., and the function returns the result of
\* the first call that succeeded.
C3_AlternatingRetries ==
    /\ (FitCalling /\ fit.attempt_no >= 1) =>
          fit.gauss_bins = fit.bin_origin + AlternatingTerm(fit.attempt_no)
    /\ fit.pc = "returned" =>
          fit.result = Some([gauss_bin |-> fit.gauss_bins,
                             gauss_smooth |-> fit.gauss_smooth])

FitSafe ==
    /\ fit.pc \in {"loop", "returned", "raised"} => fit.attempt_no <= BinAdjustLen
    /\ fit.pc = "returned" =>
          /\ fit.trial = 1
          /\ fit.result = Some([gauss_bin |-> fit.gauss_bins,
                                gauss_smooth |-> fit.gauss_smooth])
          /\ ~GaussFitMustRaise(fit.gauss_bins, fit.gauss_smooth)
    /\ fit.pc = "raised" =>
          fit.attempt_no = BinAdjustLen /\ fit.result = None

\* C4: the retry loop ends, either returning the result of the first call of
\* gauss_fit that succeeded or, after at most len(bin_adjust) failed calls,
\* raising to the caller; a failed call's result is never returned.
C4_Terminates == <>(fit.pc \in {"returned", "raised"}) /\ []FitSafe

\* every call failed and the table ran out
C4_Witness ==
    fit.pc = "raised" /\ fit.attempt_no = BinAdjustLen /\ fit.bin_origin = DefaultBins

\* C7 as stated: without a supplied gauss_smooth every call uses 10% of the
\* bin count of that call; with one, every call uses it unchanged.
C7_WindowFollowsBins ==
    FitCalling =>
        fit.gauss_smooth = IF fit.smooth_origin = None
                           THEN TenPercent(fit.gauss_bins)
                           ELSE fit.smooth_origin[1]

\* C7 amended: without a supplied gauss_smooth every call, retries included,
\* uses 10% (integer part) of the original bin count; with one, every call
\* uses it unchanged.
C7_WindowFixed ==
    FitCalling =>
        fit.gauss_smooth = IF fit.smooth_origin = None
                           THEN TenPercent(fit.bin_origin)
                           ELSE fit.smooth_origin[1]

\* a retry whose bin count has another 10% than the original one
C7_Witness ==
    /\ FitCalling /\ fit.attempt_no >= 1 /\ fit.smooth_origin = None
    /\ TenPercent(fit.gauss_bins) # TenPercent(fit.bin_origin)
    /\ fit.gauss_smooth = TenPercent(fit.bin_origin)

(***************************************************************************)
(* get_intersects (lines 360-432) and determine_state_limits (lines        *)
(* 435-474).                                                               *)
(* A real number r of the source is the integer r * Unit, where Unit is    *)
(* twice the number of grid steps: every grid point of np.linspace is then *)
(* an even integer and half the sum of two grid points is an integer.      *)
(* A density is counted in units of 0.0001, the threshold of line 394.     *)
(* GridLen stands for the 10000 grid points of line 275 and MaxGauss for   *)
(* the ten components gauss_fit can return at most.  A fitted component is *)
(* _gauss over the grid (line 295) with its mean on a grid point, an       *)
(* amplitude of either sign and one of three widths.                       *)
(***************************************************************************)
GridLen == 3

MaxGauss == 2

SentinelValue == 10000

SentinelBoundary == 20000

Significance == 1

Unit == 2 * (GridLen - 1)

Real(r) == r * Unit

Distrs ==
    { <<Real(-4), Real(2)>>,
      <<Real(2), Real(SentinelValue), Real(-4)>>,
      <<Real(-4), Real(-1)>>,
      <<Real(SentinelValue), Real(2)>>,
      <<Real(SentinelValue)>> }

Amplitudes == {1, 2, -3}

Sigmas == {"narrow", "medium", "wide"}

\* the parameters of one fitted component; x0 is the grid position of the mean
GaussParams == [x0 : 1..GridLen, sigma : Sigmas, a : Amplitudes]

\* 4 * np.exp(-(x-x0)**2/(2*sigma**2)) at distance dx from the mean, on a grid
\* of the given step: a wide component is flat over the grid, a medium one
\* halves at the next grid point and vanishes beyond, a narrow one vanishes
\* off its mean
Exp4(dx, sigma, step) ==
    IF dx = 0 \/ sigma = "wide" THEN 4
    ELSE IF sigma = "medium" /\ Abs(dx) = step THEN 2
    ELSE 0

\* line 103: abs(a*np.exp(-(x-x0)**2/(2*sigma**2)))
gauss(x, param) ==
    [i \in 1..Len(x) |->
        Abs(param.a * Exp4(x[i] - x[param.x0], param.sigma, x[2] - x[1])) \div 4]

Range(s) == {s[i] : i \in 1..Len(s)}

\* max(s) and min(s) of a non-empty list
Max(s) == CHOOSE v \in Range(s) : \A w \in Range(s) : w <= v

Min(s) == CHOOSE v \in Range(s) : \A w \in Range(s) : v <= w

\* list.index(v): the first position holding v
Index(s, v) == CHOOSE i \in 1..Len(s) : s[i] = v /\ \A j \in 1..(i - 1) : s[j] # v

RECURSIVE Sorted(_)
\* sorted(s), np.sort(s): ascending
Sorted(s) ==
    IF s = <<>> THEN <<>>
    ELSE LET i == Index(s, Min(s))
         IN  <<s[i]>> \o Sorted(SubSeq(s, 1, i - 1) \o SubSeq(s, i + 1, Len(s)))

\* np.linspace(lo, hi, GridLen), line 275
Linspace(lo, hi) == [i \in 1..GridLen |-> lo + (i - 1) * ((hi - lo) \div (GridLen - 1))]

\* line 464: [item for item in new_dist if item != 10000.0]
IsValue(item) == item # Real(SentinelValue)

\* line 390: xline[list(g).index(max(g))]
PeakX(g, xline) == xline[Index(g, Max(g))]

\* lines 388-390
MeanGaussXval(gaussians, xline) ==
    [k \in 1..Len(gaussians) |-> PeakX(gaussians[k], xline)]

\* line 392: [mean_gauss_xval.index(mean) for mean in sorted(mean_gauss_xval)]
ReorderIndices(mean_gauss_xval) ==
    LET by_x == Sorted(mean_gauss_xval)
    IN  [k \in 1..Len(by_x) |-> Index(mean_gauss_xval, by_x[k])]

\* line 394: max(gaussians[gauss_num])>0.0001
SignificantMut(g) == Min(g) > Significance

Significant(g) == Max(g) > Significance

\* line 394
ReorderGaussians(gaussians, reorder_indices) ==
    LET kept == SelectSeq(reorder_indices, LAMBDA i : Significant(gaussians[i]))
    IN  [k \in 1..Len(kept) |-> gaussians[kept[k]]]

\* np.sign
Sign(v) == IF v > 0 THEN 1 ELSE IF v < 0 THEN -1 ELSE 0

\* line 398: np.argwhere(np.diff(np.sign(A - B))).flatten(), ascending
SignChanges(A, B) ==
    LET all_idx == [i \in 1..(GridLen - 1) |-> i]
    IN  SelectSeq(all_idx, LAMBDA i : Sign(A[i + 1] - B[i + 1]) - Sign(A[i] - B[i]) # 0)

\* lines 409-411: 0.5* np.abs(xline[gauss_max2] + xline[gauss_max1])
Centre(A, B, xline) ==
    LET gauss_max1 == Index(A, Max(A))
        gauss_max2 == Index(B, Max(B))
    IN  Abs(xline[gauss_max2] + xline[gauss_max1]) \div 2

\* lines 398-412, one pass of the loop: the boundary appended for the pair
\* (A, B).  float() of an array with more than one element raises TypeError.
PairIntersect(A, B, xline) ==
    LET idx == SignChanges(A, B)
    IN  IF Len(idx) = 1 THEN [kind |-> "value", value |-> xline[idx[1]]]
        ELSE IF Len(idx) # 0
        THEN LET intersect_ymax == Max([j \in 1..Len(idx) |-> A[idx[j]]])
                 intersect_ymax_index ==
                     SelectSeq(idx, LAMBDA item : A[item] = intersect_ymax)
             IN  IF Len(intersect_ymax_index) = 1
                 THEN [kind |-> "value", value |-> xline[intersect_ymax_index[1]]]
                 ELSE [kind |-> "raise", error |-> "TypeError"]
        ELSE [kind |-> "value", value |-> Centre(A, B, xline)]

RECURSIVE PairLoop(_, _, _, _)
\* lines 396-412: for gauss_index in range(len(reorder_gaussians)-1)
PairLoop(reorder_gaussians, xline, gauss_index, all_intersects) ==
    IF gauss_index > Len(reorder_gaussians) - 1
    THEN [kind |-> "value", all_intersects |-> all_intersects]
    ELSE LET got == PairIntersect(reorder_gaussians[gauss_index],
                                  reorder_gaussians[gauss_index + 1], xline)
         IN  IF got.kind = "raise"
             THEN [kind |-> "raise", error |-> got.error,
                   all_intersects |-> all_intersects]
             ELSE PairLoop(reorder_gaussians, xline, gauss_index + 1,
                           Append(all_intersects, got.value))

LimInit ==
    /\ \E distr \in Distrs :
           lim = [pc |-> "fit", distr |-> distr]
    /\ sm = Idle /\ kc = Idle /\ fit = Idle

\* lines 463-466, smart_gauss_fit returns: any list of at most MaxGauss
\* components over the grid of line 275.  gauss_fit reads min(distribution)
\* and max(distribution), so it returns for no empty distribution.
LimFitReturns ==
    /\ lim.pc = "fit"
    /\ LET distribution == SelectSeq(lim.distr, IsValue)
           xline == Linspace(Min(distribution), Max(distribution))
       IN  /\ distribution # <<>>
           /\ \E params \in SeqsOf(GaussParams, 0, MaxGauss) :
                lim' = [pc |-> "intersects", distr |-> lim.distr,
                        distribution |-> distribution,
                        gaussians |-> [k \in 1..Len(params) |-> gauss(xline, params[k])],
                        xline |-> xline]
    /\ UNCHANGED <<sm, kc, fit>>

\* lines 463-466, smart_gauss_fit raises: every bin count it tried failed
LimFitRaises ==
    /\ lim.pc = "fit"
    /\ lim' = [pc |-> "raised", distr |-> lim.distr,
               distribution |-> SelectSeq(lim.distr, IsValue),
               error |-> "IndexError"]
    /\ UNCHANGED <<sm, kc, fit>>

\* line 469: get_intersects(gaussians, distribution, xline), lines 387-414
LimIntersects ==
    /\ lim.pc = "intersects"
    /\ LET mean_gauss_xval == MeanGaussXval(lim.gaussians, lim.xline)
           reorder_indices == ReorderIndices(mean_gauss_xval)
           reorder_gaussians == ReorderGaussians(lim.gaussians, reorder_indices)
           looped == PairLoop(reorder_gaussians, lim.xline, 1,
                              <<Min(lim.distribution)>>)
           locals == [distr |-> lim.distr, distribution |-> lim.distribution,
                      gaussians |-> lim.gaussians, xline |-> lim.xline,
                      reorder_gaussians |-> reorder_gaussians]
       IN  lim' =
             IF looped.kind = "raise"
             THEN [pc |-> "raised", error |-> looped.error,
                   all_intersects |-> looped.all_intersects] @@ locals
             ELSE [pc |-> "limits",
                   all_intersects |->
                       Append(looped.all_intersects, Max(lim.distribution))]
                  @@ locals
    /\ UNCHANGED <<sm, kc, fit>>

\* lines 470-474
LimSort ==
    /\ lim.pc = "limits"
    /\ LET intersection_of_states ==
               IF \E i \in 1..Len(lim.distr) : lim.distr[i] = Real(SentinelValue)
               THEN Append(lim.all_intersects, Real(SentinelBoundary))
               ELSE lim.all_intersects
       IN  lim' = [pc |-> "done", result |-> Sorted(intersection_of_states)] @@ lim
    /\ UNCHANGED <<sm, kc, fit>>

LimNext == LimFitReturns \/ LimFitRaises \/ LimIntersects \/ LimSort

SpecLimits ==
    /\ LimInit
    /\ [][LimNext]_vars

\* get_intersects has returned
LimResolved == lim.pc \in {"limits", "done"}

\* get_intersects has been called, and has returned or raised
LimCalled == LimResolved \/ (lim.pc = "raised" /\ lim.error = "TypeError")

HasSentinel == \E i \in 1..Len(lim.distr) : lim.distr[i] = Real(SentinelValue)

\* the adjacent pairs of the ordered list
LimPairs == 1..(Len(lim.reorder_gaussians) - 1)

\* C1: a returned boundary list is sorted ascending, starts at the minimum of
\* the filtered distribution and ends at its maximum, or at 20000.0 when the
\* input held a sentinel; every boundary get_intersects put between the two
\* extrema lies within [min, max].
C1_BoundaryList ==
    lim.pc = "done" =>
        LET lo == Min(lim.distribution)
            hi == Max(lim.distribution)
            n  == Len(lim.result)
        IN  /\ \A i, j \in 1..n : i < j => lim.result[i] <= lim.result[j]
            /\ lim.result[1] = lo
            /\ lim.result[n] = IF HasSentinel THEN Real(SentinelBoundary) ELSE hi
            /\ \A k \in 2..(Len(lim.all_intersects) - 1) :
                  lo <= lim.all_intersects[k] /\ lim.all_intersects[k] <= hi

\* C2 as stated: for any number of components handed to get_intersects, none
\* included, the returned list has that number + 1 elements, and one more
\* when the input holds a sentinel.
C2_LengthAsStated ==
    lim.pc = "done" =>
        Len(lim.result) = Len(lim.gaussians) + 1 + (IF HasSentinel THEN 1 ELSE 0)

\* C2 amended: a returned list has max(c, 1) + 1 elements, and one more when
\* the input holds a sentinel, where c is the number of components handed to
\* get_intersects, provided each has a peak maximum above 1e-4; so it has 2
\* (or 3) elements for no component.  Components with a peak maximum of at
\* most 1e-4 are dropped, so in general the length lies between 2 (or 3) and
\* that number.
C2_Length ==
    lim.pc = "done" =>
        LET c    == Len(lim.gaussians)
            s    == IF HasSentinel THEN 1 ELSE 0
            most == (IF c = 0 THEN 1 ELSE c) + 1 + s
        IN  /\ (\A k \in 1..c : Max(lim.gaussians[k]) > Significance) =>
                  Len(lim.result) = most
            /\ 2 + s <= Len(lim.result)
            /\ Len(lim.result) <= most

\* two components above the threshold and a sentinel: four boundaries
C2_Witness ==
    /\ lim.pc = "done" /\ HasSentinel /\ Len(lim.gaussians) = 2
    /\ \A k \in 1..2 : Max(lim.gaussians[k]) > Significance
    /\ Len(lim.result) = 4

\* C8: for an adjacent pair whose curves show no sign change, the boundary
\* appended is the midpoint (x1 + x2) / 2 of the two peak locations.
C8_Midpoint ==
    LimResolved =>
        \A k \in LimPairs :
            LET A == lim.reorder_gaussians[k]
                B == lim.reorder_gaussians[k + 1]
            IN  SignChanges(A, B) = <<>> =>
                    2 * lim.all_intersects[k + 1]
                        = PeakX(A, lim.xline) + PeakX(B, lim.xline)

\* C9: the ordered list is a permutation of the input components whose peak
\* maximum exceeds 1e-4, each appearing once, in non-decreasing order of the
\* grid location of its peak.
C9_Permutation ==
    LimCalled =>
        LET r    == lim.reorder_gaussians
            kept == {k \in 1..Len(lim.gaussians) :
                        Max(lim.gaussians[k]) > Significance}
        IN  /\ Len(r) = Cardinality(kept)
            /\ \E pi \in [1..Len(r) -> kept] :
                  /\ \A i, j \in 1..Len(r) : pi[i] = pi[j] => i = j
                  /\ \A j \in 1..Len(r) : r[j] = lim.gaussians[pi[j]]
            /\ \A i, j \in 1..Len(r) :
                  i < j => PeakX(r[i], lim.xline) <= PeakX(r[j], lim.xline)

\* C10: for an adjacent pair with one sign change the boundary is the grid
\* value there; with several it is, without error, the grid value at the
\* sign change where the first curve is largest, equal values included.
C10_MaxCrossing ==
    LimCalled =>
        /\ lim.pc # "raised"
        /\ \A k \in LimPairs :
            LET A   == lim.reorder_gaussians[k]
                idx == SignChanges(A, lim.reorder_gaussians[k + 1])
            IN  Len(idx) >= 1 =>
                    \E j \in 1..Len(idx) :
                        /\ lim.all_intersects[k + 1] = lim.xline[idx[j]]
                        /\ \A i \in 1..Len(idx) : A[idx[i]] <= A[idx[j]]

=============================================================================
